---- MODULE Spec2Model ----
(***************************************************************************)
(* Model of the device protocol layer of turbokeys.py: the MiniKeyboard    *)
(* session (connect, disconnect, firmware dialect detection) and the       *)
(* multi-packet commands set_basic_key, set_media_key and set_led_mode,    *)
(* over a HID transport whose writes may raise.                            *)
(***************************************************************************)
EXTENDS Integers, Sequences, FiniteSets, TLC

(***************************************************************************)
(* Bounds of the model.                                                    *)
(***************************************************************************)
\* layer arguments range over -BelowLayer..MaxLayer
MaxLayer == 3
BelowLayer == 1
\* LED mode arguments range over 0..MaxMode
MaxMode == 1
\* runs of _detect_version are counted up to MaxDetections
MaxDetections == 2
\* calls of device.close() are counted up to MaxCloses
MaxCloses == 1
\* _write_report is handed payloads of 0..MaxDataLen values
MaxDataLen == 9
\* parse_key_combo is handed combos of 1..MaxTokens tokens
MaxTokens == 3

(***************************************************************************)
(* Program constants.                                                      *)
(***************************************************************************)
KT_BASIC == 1
KT_MEDIA == 2
KT_LED == 8
KEY_A == 4
DEFAULT_REPORT_ID == 3
LAYER_SWITCH == 161
FLASH == 170
FLASH_LED == 161
LED_SLOT == 176
REPORT_LEN == 8
NIBBLE == 15
LAYER_MIN == 1

MEDIA_KEYCODES ==
    [play |-> 205, pause |-> 205, playpause |-> 205, stop |-> 183,
     prev |-> 182, previous |-> 182, next |-> 181, mute |-> 226,
     volup |-> 233, volumeup |-> 233, voldown |-> 234, volumedown |-> 234]

MOD_CTRL == 1
MOD_SHIFT == 2
MOD_ALT == 4
MOD_WIN == 8

\* the backtick character, which a string of the module cannot hold, is
\* written "<grave>"
KEYCODES ==
    ("a" :> 4) @@ ("b" :> 5) @@ ("c" :> 6) @@ ("d" :> 7) @@
    ("e" :> 8) @@ ("f" :> 9) @@ ("g" :> 10) @@ ("h" :> 11) @@
    ("i" :> 12) @@ ("j" :> 13) @@ ("k" :> 14) @@ ("l" :> 15) @@
    ("m" :> 16) @@ ("n" :> 17) @@ ("o" :> 18) @@ ("p" :> 19) @@
    ("q" :> 20) @@ ("r" :> 21) @@ ("s" :> 22) @@ ("t" :> 23) @@
    ("u" :> 24) @@ ("v" :> 25) @@ ("w" :> 26) @@ ("x" :> 27) @@
    ("y" :> 28) @@ ("z" :> 29) @@ ("1" :> 30) @@ ("2" :> 31) @@
    ("3" :> 32) @@ ("4" :> 33) @@ ("5" :> 34) @@ ("6" :> 35) @@
    ("7" :> 36) @@ ("8" :> 37) @@ ("9" :> 38) @@ ("0" :> 39) @@
    ("enter" :> 40) @@ ("return" :> 40) @@ ("escape" :> 41) @@
    ("esc" :> 41) @@ ("backspace" :> 42) @@ ("tab" :> 43) @@
    ("space" :> 44) @@ ("minus" :> 45) @@ ("-" :> 45) @@
    ("equal" :> 46) @@ ("=" :> 46) @@ ("leftbracket" :> 47) @@
    ("[" :> 47) @@ ("rightbracket" :> 48) @@ ("]" :> 48) @@
    ("backslash" :> 49) @@ ("\\" :> 49) @@ ("semicolon" :> 51) @@
    (";" :> 51) @@ ("quote" :> 52) @@ ("'" :> 52) @@ ("grave" :> 53) @@
    ("<grave>" :> 53) @@ ("comma" :> 54) @@ ("," :> 54) @@
    ("period" :> 55) @@ ("." :> 55) @@ ("slash" :> 56) @@
    ("/" :> 56) @@ ("capslock" :> 57) @@ ("f1" :> 58) @@
    ("f2" :> 59) @@ ("f3" :> 60) @@ ("f4" :> 61) @@ ("f5" :> 62) @@
    ("f6" :> 63) @@ ("f7" :> 64) @@ ("f8" :> 65) @@ ("f9" :> 66) @@
    ("f10" :> 67) @@ ("f11" :> 68) @@ ("f12" :> 69) @@
    ("printscreen" :> 70) @@ ("prtsc" :> 70) @@ ("scrolllock" :> 71) @@
    ("pause" :> 72) @@ ("break" :> 72) @@ ("insert" :> 73) @@
    ("home" :> 74) @@ ("pageup" :> 75) @@ ("pgup" :> 75) @@
    ("delete" :> 76) @@ ("del" :> 76) @@ ("end" :> 77) @@
    ("pagedown" :> 78) @@ ("pgdn" :> 78) @@ ("right" :> 79) @@
    ("left" :> 80) @@ ("down" :> 81) @@ ("up" :> 82) @@
    ("numlock" :> 83) @@ ("kp_divide" :> 84) @@
    ("kp_multiply" :> 85) @@ ("kp_minus" :> 86) @@ ("kp_plus" :> 87) @@
    ("kp_enter" :> 88) @@ ("kp_1" :> 89) @@ ("kp_2" :> 90) @@
    ("kp_3" :> 91) @@ ("kp_4" :> 92) @@ ("kp_5" :> 93) @@
    ("kp_6" :> 94) @@ ("kp_7" :> 95) @@ ("kp_8" :> 96) @@
    ("kp_9" :> 97) @@ ("kp_0" :> 98) @@ ("kp_period" :> 99) @@
    ("kp_dot" :> 99) @@ ("menu" :> 101) @@ ("app" :> 101)

PHYSICAL_KEYS ==
    ("key1" :> 1) @@ ("key2" :> 2) @@ ("key3" :> 3) @@ ("key4" :> 4) @@
    ("key5" :> 5) @@ ("key6" :> 6) @@ ("key7" :> 7) @@ ("key8" :> 8) @@
    ("key9" :> 9) @@ ("key10" :> 10) @@ ("key11" :> 11) @@
    ("key12" :> 12) @@ ("k1_left" :> 13) @@ ("knob1_left" :> 13) @@
    ("knob1_ccw" :> 13) @@ ("k1_press" :> 14) @@
    ("knob1_press" :> 14) @@ ("knob1_click" :> 14) @@
    ("k1_right" :> 15) @@ ("knob1_right" :> 15) @@
    ("knob1_cw" :> 15) @@ ("k2_left" :> 16) @@ ("knob2_left" :> 16) @@
    ("knob2_ccw" :> 16) @@ ("k2_press" :> 17) @@
    ("knob2_press" :> 17) @@ ("knob2_click" :> 17) @@
    ("k2_right" :> 18) @@ ("knob2_right" :> 18) @@ ("knob2_cw" :> 18)

\* (physical_key, keycode, modifiers) arguments of set_basic_key:
\* key1 -> a, key12 -> ctrl+shift+b, k2_right -> alt+a
BasicArgs == {<<1, KEY_A, 0>>, <<12, KEY_A + 1, 3>>, <<18, KEY_A, 4>>}
\* (physical_key, media_keycode) arguments of set_media_key
MediaArgs == {<<1, MEDIA_KEYCODES["next"]>>, <<18, MEDIA_KEYCODES["volup"]>>}
Layers == (0 - BelowLayer)..MaxLayer
Modes == 0..MaxMode
\* payloads handed to _write_report: 1, 2, .., n for n in 0..MaxDataLen
DataArgs == {[i \in 1..n |-> i] : n \in 0..MaxDataLen}

(***************************************************************************)
(* Python integer operators (unbounded two's complement).                  *)
(***************************************************************************)
RECURSIVE BitOr(_, _)
BitOr(a, b) ==
    IF a = 0 THEN b
    ELSE IF b = 0 THEN a
    ELSE IF a = 0 - 1 \/ b = 0 - 1 THEN 0 - 1
    ELSE 2 * BitOr(a \div 2, b \div 2)
         + (IF a % 2 = 1 \/ b % 2 = 1 THEN 1 ELSE 0)

RECURSIVE BitAnd(_, _)
BitAnd(a, b) ==
    IF a = 0 \/ b = 0 THEN 0
    ELSE IF a = 0 - 1 THEN b
    ELSE IF b = 0 - 1 THEN a
    ELSE 2 * BitAnd(a \div 2, b \div 2)
         + (IF a % 2 = 1 /\ b % 2 = 1 THEN 1 ELSE 0)

RECURSIVE ShiftLeft(_, _)
ShiftLeft(a, n) == IF n = 0 THEN a ELSE ShiftLeft(2 * a, n - 1)

VARIABLES
    device,      \* self.device is not None
    report_id,   \* self.report_id
    accepts,     \* the report ids the attached firmware accepts
    faulty,      \* the transport may raise an I/O error on any write
    phase,       \* how the session came to its connection state
    detections,  \* how often _detect_version has run, up to MaxDetections
    closes,      \* how often device.close() was called, up to MaxCloses
    input,       \* the text handed to the parser or to the command line
    last         \* the last call: its arguments, frames written and result

vars == <<device, report_id, accepts, faulty, phase, detections, closes,
          input, last>>

ReportIds == {0, 2, 3}

Zeros(n) == [i \in 1..n |-> 0]

\* hid.device.write(bytes): a list holding a value that is no byte cannot be
\* written; a faulty transport answers io (TRUE: written, FALSE: raised); a
\* sound one takes exactly the reports whose id the firmware accepts.
DeviceWrite(bytes, io) ==
    IF \E i \in 1..Len(bytes) : bytes[i] \notin 0..255 THEN FALSE
    ELSE IF faulty THEN io
    ELSE bytes[1] \in accepts

Frame(bytes, io) == [bytes |-> bytes, ok |-> DeviceWrite(bytes, io)]

\* mutant: report id 2 is probed before report id 0
ProbeOrder_m == <<3, 2, 0>>

\* the order in which _detect_version probes the report ids
\* mutant: report id 1 is probed in place of report id 0
ProbeOrder_m2 == <<3, 1, 2>>

ProbeOrder == <<3, 0, 2>>

\* the answers of the transport to the successive writes of one call
IoScripts ==
    IF faulty THEN [1..Len(ProbeOrder) -> BOOLEAN]
    ELSE {[i \in 1..Len(ProbeOrder) |-> TRUE]}

\* the scripts for a call that makes at most n writes (the answers beyond
\* the n-th are never asked for)
IoScriptsOf(n) ==
    {io \in IoScripts : \A i \in (n + 1)..Len(ProbeOrder) : io[i]}

RECURSIVE DetectFrom(_, _, _)
DetectFrom(i, frames, io) ==
    IF i > Len(ProbeOrder)
    THEN [report_id |-> DEFAULT_REPORT_ID, frames |-> frames]
    ELSE LET f == Frame(<<ProbeOrder[i]>> \o Zeros(REPORT_LEN),
                        io[Len(frames) + 1])
         IN IF f.ok
            THEN [report_id |-> ProbeOrder[i], frames |-> Append(frames, f)]
            ELSE DetectFrom(i + 1, Append(frames, f), io)

\* mutant: when every probe fails the last id tried is kept
DetectVersion_m(io) ==
    LET d == DetectFrom(1, <<>>, io)
    IN IF \A i \in 1..Len(d.frames) : ~d.frames[i].ok
       THEN [d EXCEPT !.report_id = ProbeOrder[Len(ProbeOrder)]]
       ELSE d

DetectVersion(io) == DetectFrom(1, <<>>, io)

\* mutant: a payload longer than the report is not cut
Report_m(data) == data \o Zeros(REPORT_LEN - Len(data))

Report(data) == SubSeq(data \o Zeros(REPORT_LEN), 1, REPORT_LEN)

\* mutant: the report is prefixed with the default report id
WriteReport_m(dev, rid, frames, data, io) ==
    IF ~dev THEN [frames |-> frames, ret |-> FALSE]
    ELSE LET f == Frame(<<DEFAULT_REPORT_ID>> \o Report(data),
                        io[Len(frames) + 1])
         IN [frames |-> Append(frames, f), ret |-> f.ok]

WriteReport(dev, rid, frames, data, io) ==
    IF ~dev THEN [frames |-> frames, ret |-> FALSE]
    ELSE LET f == Frame(<<rid>> \o Report(data), io[Len(frames) + 1])
         IN [frames |-> Append(frames, f), ret |-> f.ok]

SendLayerSwitch(dev, rid, frames, layer, io) ==
    WriteReport(dev, rid, frames,
                <<LAYER_SWITCH, IF layer < LAYER_MIN THEN LAYER_MIN ELSE layer,
                  0, 0, 0, 0, 0, 0>>, io)

\* mutant: is_led is ignored
SendFlashCommand_m(dev, rid, frames, is_led, io) ==
    WriteReport(dev, rid, frames, <<FLASH, FLASH, 0, 0, 0, 0, 0, 0>>, io)

SendFlashCommand(dev, rid, frames, is_led, io) ==
    WriteReport(dev, rid, frames,
                <<FLASH, IF is_led THEN FLASH_LED ELSE FLASH,
                  0, 0, 0, 0, 0, 0>>, io)

\* mutant: the layer is not shifted into the upper nibble
TypeByte_m(rid, layer, key_type) ==
    IF rid = 0 THEN BitAnd(key_type, NIBBLE)
    ELSE BitOr(layer, BitAnd(key_type, NIBBLE))

TypeByte(rid, layer, key_type) ==
    IF rid = 0 THEN BitAnd(key_type, NIBBLE)
    ELSE BitOr(ShiftLeft(layer, 4), BitAnd(key_type, NIBBLE))

\* mutant: the layer switch is sent whatever the report id
LayerSwitchStep_m(dev, rid, layer, io) ==
    SendLayerSwitch(dev, rid, <<>>, layer, io).frames

\* the frames after the optional layer switch, whose result is dropped
LayerSwitchStep(dev, rid, layer, io) ==
    IF rid # 0 THEN SendLayerSwitch(dev, rid, <<>>, layer, io).frames
    ELSE <<>>

\* mutant: the result of the flash command is dropped
PayloadThenFlash_m(dev, rid, frames, data, is_led, io) ==
    LET w == WriteReport(dev, rid, frames, data, io)
    IN IF ~w.ret THEN [frames |-> w.frames, ret |-> FALSE]
       ELSE [frames |-> SendFlashCommand(dev, rid, w.frames, is_led,
                                         io).frames,
             ret |-> TRUE]

\* mutant: the flash command is sent although the packet failed
PayloadThenFlash_m2(dev, rid, frames, data, is_led, io) ==
    LET w == WriteReport(dev, rid, frames, data, io)
        f == SendFlashCommand(dev, rid, w.frames, is_led, io)
    IN [frames |-> f.frames, ret |-> w.ret /\ f.ret]

\* the key (or LED) packet, then the flash command unless the packet failed
PayloadThenFlash(dev, rid, frames, data, is_led, io) ==
    LET w == WriteReport(dev, rid, frames, data, io)
    IN IF ~w.ret THEN [frames |-> w.frames, ret |-> FALSE]
       ELSE SendFlashCommand(dev, rid, w.frames, is_led, io)

SetBasicKeyCall(dev, rid, physical_key, keycode, modifiers, layer, io) ==
    IF ~dev THEN [frames |-> <<>>, ret |-> FALSE]
    ELSE PayloadThenFlash(dev, rid, LayerSwitchStep(dev, rid, layer, io),
             <<physical_key, TypeByte(rid, layer, KT_BASIC), 1, 0,
               modifiers, keycode, 0, 0>>, FALSE, io)

\* mutant: without a device the call returns True
SetMediaKeyCall_m(dev, rid, physical_key, media_keycode, layer, io) ==
    IF ~dev THEN [frames |-> <<>>, ret |-> TRUE]
    ELSE PayloadThenFlash(dev, rid, LayerSwitchStep(dev, rid, layer, io),
             <<physical_key, TypeByte(rid, layer, KT_MEDIA), media_keycode,
               0, 0, 0, 0, 0>>, FALSE, io)

\* mutant: the media code is put where the basic-key packet has its keycode
SetMediaKeyCall_m2(dev, rid, physical_key, media_keycode, layer, io) ==
    IF ~dev THEN [frames |-> <<>>, ret |-> FALSE]
    ELSE PayloadThenFlash(dev, rid, LayerSwitchStep(dev, rid, layer, io),
             <<physical_key, TypeByte(rid, layer, KT_MEDIA), 1, 0, 0,
               media_keycode, 0, 0>>, FALSE, io)

SetMediaKeyCall(dev, rid, physical_key, media_keycode, layer, io) ==
    IF ~dev THEN [frames |-> <<>>, ret |-> FALSE]
    ELSE PayloadThenFlash(dev, rid, LayerSwitchStep(dev, rid, layer, io),
             <<physical_key, TypeByte(rid, layer, KT_MEDIA), media_keycode,
               0, 0, 0, 0, 0>>, FALSE, io)

SetLedModeCall(dev, rid, mode, io) ==
    IF ~dev THEN [frames |-> <<>>, ret |-> FALSE]
    ELSE PayloadThenFlash(dev, rid, <<>>,
             <<LED_SLOT, BitAnd(KT_LED, NIBBLE), mode, 0, 0, 0, 0, 0>>,
             TRUE, io)

Call(op, args, frames, ret) ==
    [op |-> op, args |-> args, frames |-> frames, ret |-> ret]

Init ==
    /\ device = FALSE
    /\ report_id = DEFAULT_REPORT_ID
    /\ faulty \in BOOLEAN
    /\ accepts \in (IF faulty THEN {ReportIds} ELSE SUBSET ReportIds)
    /\ phase = "new"
    /\ detections = 0
    /\ closes = 0
    /\ input = <<>>
    /\ last = Call("init", <<>>, <<>>, FALSE)

\* connect(): found is find_device()'s answer, opened whether open_path and
\* set_nonblocking return without raising
Connect ==
    \E found \in BOOLEAN, opened \in BOOLEAN :
    \E io \in IoScriptsOf(IF found /\ opened THEN Len(ProbeOrder) ELSE 0) :
        IF ~found
        THEN /\ last' = Call("connect", <<>>, <<>>, FALSE)
             /\ UNCHANGED <<device, report_id, accepts, faulty, phase,
                            detections, closes, input>>
        ELSE IF ~opened
        THEN /\ device' = FALSE
             /\ phase' = "connect_failed"
             /\ last' = Call("connect", <<>>, <<>>, FALSE)
             /\ UNCHANGED <<report_id, accepts, faulty, detections, closes,
                            input>>
        ELSE LET d == DetectVersion(io)
             IN /\ device' = TRUE
                /\ report_id' = d.report_id
                /\ phase' = "connected"
                /\ detections' = IF detections < MaxDetections
                                THEN detections + 1 ELSE detections
                /\ last' = Call("connect", <<>>, d.frames, TRUE)
                /\ UNCHANGED <<accepts, faulty, closes, input>>

Disconnect ==
    /\ device' = FALSE
    /\ phase' = IF device THEN "disconnected" ELSE phase
    /\ closes' = IF device /\ closes < MaxCloses THEN closes + 1 ELSE closes
    /\ last' = Call("disconnect", <<>>, <<>>, FALSE)
    /\ UNCHANGED <<report_id, accepts, faulty, detections, input>>

SetBasicKey ==
    \E a \in BasicArgs, layer \in Layers, io \in IoScripts :
        LET r == SetBasicKeyCall(device, report_id, a[1], a[2], a[3],
                                 layer, io)
        IN /\ last' = Call("set_basic_key", <<a[1], a[2], a[3], layer>>,
                           r.frames, r.ret)
           /\ UNCHANGED <<device, report_id, accepts, faulty, phase,
                          detections, closes, input>>

SetMediaKey ==
    \E a \in MediaArgs, layer \in Layers, io \in IoScripts :
        LET r == SetMediaKeyCall(device, report_id, a[1], a[2], layer, io)
        IN /\ last' = Call("set_media_key", <<a[1], a[2], layer>>,
                           r.frames, r.ret)
           /\ UNCHANGED <<device, report_id, accepts, faulty, phase,
                          detections, closes, input>>

SetLedMode ==
    \E mode \in Modes, io \in IoScriptsOf(2) :
        LET r == SetLedModeCall(device, report_id, mode, io)
        IN /\ last' = Call("set_led_mode", <<mode>>, r.frames, r.ret)
           /\ UNCHANGED <<device, report_id, accepts, faulty, phase,
                          detections, closes, input>>

\* _write_report(data) for payloads of every length 0..MaxDataLen
WriteReportOp ==
    \E data \in DataArgs, io \in IoScriptsOf(1) :
        LET r == WriteReport(device, report_id, <<>>, data, io)
        IN /\ last' = Call("_write_report", data, r.frames, r.ret)
           /\ UNCHANGED <<device, report_id, accepts, faulty, phase,
                          detections, closes, input>>

Next ==
    \/ Connect
    \/ Disconnect
    \/ SetBasicKey
    \/ SetMediaKey
    \/ SetLedMode
    \/ WriteReportOp

Spec == Init /\ [][Next]_vars

(***************************************************************************)
(* parse_key_combo.  A Python string is the sequence of its characters.    *)
(***************************************************************************)
\* The alphabet: the ASCII letters and, standing for the letters outside
\* ASCII, U+00E9 and U+00C9, written "<e-acute>" and "<E-ACUTE>".
UPPERCASE ==
    <<"A", "B", "C", "D", "E", "F", "G", "H", "I", "J", "K", "L", "M", "N",
      "O", "P", "Q", "R", "S", "T", "U", "V", "W", "X", "Y", "Z", "<E-ACUTE>">>

LOWERCASE ==
    <<"a", "b", "c", "d", "e", "f", "g", "h", "i", "j", "k", "l", "m", "n",
      "o", "p", "q", "r", "s", "t", "u", "v", "w", "x", "y", "z", "<e-acute>">>

\* str.lower() and str.upper() of one character
LowerChar(c) ==
    IF \E i \in 1..Len(UPPERCASE) : UPPERCASE[i] = c
    THEN LOWERCASE[CHOOSE i \in 1..Len(UPPERCASE) : UPPERCASE[i] = c]
    ELSE c

UpperChar(c) ==
    IF \E i \in 1..Len(LOWERCASE) : LOWERCASE[i] = c
    THEN UPPERCASE[CHOOSE i \in 1..Len(LOWERCASE) : LOWERCASE[i] = c]
    ELSE c

\* mutant: the combo is not lowercased
Lower_m(s) == s

Lower(s) == [i \in 1..Len(s) |-> LowerChar(s[i])]

NotSpace(c) == c # " "

\* str.replace(' ', '')
StripSpaces(s) == SelectSeq(s, NotSpace)

\* str.split(sep)
RECURSIVE Split(_, _)
Split(s, sep) ==
    IF \A i \in 1..Len(s) : s[i] # sep THEN <<s>>
    ELSE LET i == CHOOSE k \in 1..Len(s) :
                      s[k] = sep /\ \A j \in 1..(k - 1) : s[j] # sep
         IN <<SubSeq(s, 1, i - 1)>> \o Split(SubSeq(s, i + 1, Len(s)), sep)

\* the characters of a part as one string, the key of the tables
RECURSIVE Str(_)
Str(cs) == IF cs = <<>> THEN "" ELSE cs[1] \o Str(Tail(cs))

\* str.isalpha() of one character
IsAlpha(c) ==
    \E i \in 1..Len(LOWERCASE) : LOWERCASE[i] = c \/ UPPERCASE[i] = c

\* one round of the loop over the parts
ParsePart(acc, part) ==
    LET p == Str(part)
    IN IF p \in {"ctrl", "control"}
       THEN [acc EXCEPT !.modifiers = BitOr(@, MOD_CTRL)]
       ELSE IF p = "shift"
       THEN [acc EXCEPT !.modifiers = BitOr(@, MOD_SHIFT)]
       ELSE IF p = "alt"
       THEN [acc EXCEPT !.modifiers = BitOr(@, MOD_ALT)]
       ELSE IF p \in {"win", "super", "meta", "gui"}
       THEN [acc EXCEPT !.modifiers = BitOr(@, MOD_WIN)]
       ELSE IF p \in DOMAIN KEYCODES
       THEN [acc EXCEPT !.keycode = KEYCODES[p]]
       ELSE IF Len(part) = 1 /\ IsAlpha(part[1])
       THEN [acc EXCEPT !.keycode =
                 IF p \in DOMAIN KEYCODES THEN KEYCODES[p] ELSE 0]
       ELSE acc

RECURSIVE ParseParts(_, _)
ParseParts(acc, parts) ==
    IF parts = <<>> THEN acc
    ELSE ParseParts(ParsePart(acc, Head(parts)), Tail(parts))

\* parse_key_combo(combo_str): the pair (modifiers, keycode)
ParseKeyCombo(combo_str) ==
    LET parts == Split(StripSpaces(Lower(combo_str)), "+")
        r == ParseParts([modifiers |-> 0, keycode |-> 0], parts)
    IN <<r.modifiers, r.keycode>>

(***************************************************************************)
(* The combos handed to parse_key_combo: up to MaxTokens tokens joined by  *)
(* "+", written in one of four styles.                                     *)
(***************************************************************************)
Vocabulary ==
    { <<"c", "t", "r", "l">>, <<"c", "o", "n", "t", "r", "o", "l">>,
      <<"s", "h", "i", "f", "t">>, <<"a", "l", "t">>, <<"w", "i", "n">>,
      <<"g", "u", "i">>, <<"a">>, <<"b">>, <<"f", "1">>, <<"e", "s", "c">>,
      <<"x", "y", "z">>, <<"v", "o", "l", "u", "p">>, <<"<e-acute>">>, <<>> }

Styles == {"lower", "upper", "spaced", "mixed"}

RECURSIVE JoinPlus(_)
JoinPlus(toks) ==
    IF Len(toks) = 0 THEN <<>>
    ELSE IF Len(toks) = 1 THEN toks[1]
    ELSE toks[1] \o <<"+">> \o JoinPlus(Tail(toks))

RECURSIVE Spaced(_)
Spaced(s) == IF s = <<>> THEN <<" ">> ELSE <<" ", s[1]>> \o Spaced(Tail(s))

Render(toks, style) ==
    LET s == JoinPlus(toks)
    IN IF style = "upper" THEN [i \in 1..Len(s) |-> UpperChar(s[i])]
       ELSE IF style = "spaced" THEN Spaced(s)
       ELSE IF style = "mixed"
       THEN [i \in 1..Len(s) |-> IF i % 2 = 1 THEN UpperChar(s[i]) ELSE s[i]]
       ELSE s

TokenLists == UNION {[1..n -> Vocabulary] : n \in 1..MaxTokens}

ParseInputs ==
    {[toks |-> t, style |-> y, combo |-> Render(t, y)] :
        t \in TokenLists, y \in Styles}

InitParse ==
    /\ device = FALSE
    /\ report_id = DEFAULT_REPORT_ID
    /\ faulty = FALSE
    /\ accepts = ReportIds
    /\ phase = "new"
    /\ detections = 0
    /\ closes = 0
    /\ input \in ParseInputs
    /\ last = Call("init", <<>>, <<>>, FALSE)

ParseCall ==
    /\ last.op = "init"
    /\ last' = Call("parse_key_combo", input.combo, <<>>,
                    ParseKeyCombo(input.combo))
    /\ UNCHANGED <<device, report_id, accepts, faulty, phase, detections,
                   closes, input>>

NextParse == ParseCall

SpecParse == InitParse /\ [][NextParse]_vars

(***************************************************************************)
(* main(): one run of the command line for the commands set and led.       *)
(***************************************************************************)
\* the characters of a string
Chars(str) == [i \in 1..Len(str) |-> SubSeq(str, i, i)]

\* connect() on a session with the given device and report id
ConnectCall(dev, rid, found, opened, io) ==
    IF ~found
    THEN [device |-> dev, report_id |-> rid, frames |-> <<>>, ret |-> FALSE]
    ELSE IF ~opened
    THEN [device |-> FALSE, report_id |-> rid, frames |-> <<>>,
          ret |-> FALSE]
    ELSE LET d == DetectVersion(io)
         IN [device |-> TRUE, report_id |-> d.report_id,
             frames |-> d.frames, ret |-> TRUE]

\* mutant: the slots are counted from 0
PhysicalKey_m(key_name) == PHYSICAL_KEYS[key_name] - 1

PhysicalKey(key_name) == PHYSICAL_KEYS[key_name]

\* mutant: the mapping is tried as a key combo before the media table
MappingCommand_m(rid, physical_key, mapping, layer, io) ==
    LET pc == ParseKeyCombo(mapping)
    IN IF pc[2] # 0
       THEN LET r == SetBasicKeyCall(TRUE, rid, physical_key, pc[2], pc[1],
                                     layer, io)
            IN [calls |-> << <<"parse_key_combo", mapping>>,
                             <<"set_basic_key", physical_key, pc[2], pc[1],
                               layer>> >>,
                frames |-> r.frames,
                outcome |-> IF r.ret THEN "set" ELSE "failed"]
       ELSE IF Str(mapping) \in DOMAIN MEDIA_KEYCODES
       THEN LET media_code == MEDIA_KEYCODES[Str(mapping)]
                r == SetMediaKeyCall(TRUE, rid, physical_key, media_code,
                                     layer, io)
            IN [calls |-> << <<"parse_key_combo", mapping>>,
                             <<"set_media_key", physical_key, media_code,
                               layer>> >>,
                frames |-> r.frames,
                outcome |-> IF r.ret THEN "set" ELSE "failed"]
       ELSE [calls |-> << <<"parse_key_combo", mapping>> >>,
             frames |-> <<>>, outcome |-> "unknown_key"]

\* mutant: a zero keycode from the parser is not tested
MappingCommand_m2(rid, physical_key, mapping, layer, io) ==
    IF Str(mapping) \in DOMAIN MEDIA_KEYCODES
    THEN LET media_code == MEDIA_KEYCODES[Str(mapping)]
             r == SetMediaKeyCall(TRUE, rid, physical_key, media_code,
                                  layer, io)
         IN [calls |-> << <<"set_media_key", physical_key, media_code,
                            layer>> >>,
             frames |-> r.frames,
             outcome |-> IF r.ret THEN "set" ELSE "failed"]
    ELSE LET pc == ParseKeyCombo(mapping)
             r == SetBasicKeyCall(TRUE, rid, physical_key, pc[2], pc[1],
                                  layer, io)
         IN [calls |-> << <<"parse_key_combo", mapping>>,
                          <<"set_basic_key", physical_key, pc[2], pc[1],
                            layer>> >>,
             frames |-> r.frames,
             outcome |-> IF r.ret THEN "set" ELSE "failed"]

\* the set command once the physical key is known: mapping is lowercased
MappingCommand(rid, physical_key, mapping, layer, io) ==
    IF Str(mapping) \in DOMAIN MEDIA_KEYCODES
    THEN LET media_code == MEDIA_KEYCODES[Str(mapping)]
             r == SetMediaKeyCall(TRUE, rid, physical_key, media_code,
                                  layer, io)
         IN [calls |-> << <<"set_media_key", physical_key, media_code,
                            layer>> >>,
             frames |-> r.frames,
             outcome |-> IF r.ret THEN "set" ELSE "failed"]
    ELSE LET pc == ParseKeyCombo(mapping)
         IN IF pc[2] = 0
            THEN [calls |-> << <<"parse_key_combo", mapping>> >>,
                  frames |-> <<>>, outcome |-> "unknown_key"]
            ELSE LET r == SetBasicKeyCall(TRUE, rid, physical_key, pc[2],
                                          pc[1], layer, io)
                 IN [calls |-> << <<"parse_key_combo", mapping>>,
                                  <<"set_basic_key", physical_key, pc[2],
                                    pc[1], layer>> >>,
                     frames |-> r.frames,
                     outcome |-> IF r.ret THEN "set" ELSE "failed"]

\* the body of the try block on a connected session
CommandBody(rid, inp, io) ==
    IF inp.command = "set"
    THEN LET key_name == Str(Lower(inp.key))
         IN IF key_name \notin DOMAIN PHYSICAL_KEYS
            THEN [calls |-> <<>>, frames |-> <<>>,
                  outcome |-> "unknown_slot"]
            ELSE MappingCommand(rid, PhysicalKey(key_name),
                                Lower(inp.mapping), inp.layer, io)
    ELSE LET r == SetLedModeCall(TRUE, rid, inp.mode, io)
         IN [calls |-> << <<"set_led_mode", inp.mode>> >>,
             frames |-> r.frames,
             outcome |-> IF r.ret THEN "set" ELSE "failed"]

\* mutant: disconnect follows the try block without a finally clause, so
\* the returns inside the block skip it
MainRun_m(inp, found, opened, io1, io2) ==
    LET c == ConnectCall(FALSE, DEFAULT_REPORT_ID, found, opened, io1)
    IN IF ~c.ret
       THEN [calls |-> << <<"connect">> >>, probes |-> c.frames,
             frames |-> <<>>, outcome |-> "connect_error",
             connected |-> FALSE, report_id |-> c.report_id]
       ELSE LET b == CommandBody(c.report_id, inp, io2)
            IN [calls |-> << <<"connect">> >> \o b.calls
                          \o (IF b.outcome \in {"unknown_slot", "unknown_key"}
                              THEN <<>> ELSE << <<"disconnect">> >>),
                probes |-> c.frames, frames |-> b.frames,
                outcome |-> b.outcome, connected |-> TRUE,
                report_id |-> c.report_id]

\* main() on a new MiniKeyboard: connect, the command, disconnect
MainRun(inp, found, opened, io1, io2) ==
    LET c == ConnectCall(FALSE, DEFAULT_REPORT_ID, found, opened, io1)
    IN IF ~c.ret
       THEN [calls |-> << <<"connect">> >>, probes |-> c.frames,
             frames |-> <<>>, outcome |-> "connect_error",
             connected |-> FALSE, report_id |-> c.report_id]
       ELSE LET b == CommandBody(c.report_id, inp, io2)
            IN [calls |-> << <<"connect">> >> \o b.calls
                          \o << <<"disconnect">> >>,
                probes |-> c.frames, frames |-> b.frames,
                outcome |-> b.outcome, connected |-> TRUE,
                report_id |-> c.report_id]

SomeKeys ==
    {Chars("key1"), Chars("KEY12"), Chars("Knob2_CW"), Chars("key13")}

SomeMappings ==
    {Chars("a"), Chars("volup"), Chars("PAUSE"), Chars("ctrl+shift+a"),
     Chars("ctrl+pause"), Chars(" volup"), Chars("xyz"), Chars("Alt+F4")}

AllKeys == {Chars(n) : n \in DOMAIN PHYSICAL_KEYS}

AllMappings == {Chars(n) : n \in DOMAIN KEYCODES \cup DOMAIN MEDIA_KEYCODES}

CliLayers == {LAYER_MIN, MaxLayer}

CliInputs ==
    {[command |-> "set", key |-> km[1], mapping |-> km[2], layer |-> l,
      mode |-> 0] :
        km \in SomeKeys \X SomeMappings, l \in CliLayers}
    \cup {[command |-> "set", key |-> k, mapping |-> m, layer |-> LAYER_MIN,
           mode |-> 0] : k \in AllKeys, m \in {Chars("a"), Chars("volup")}}
    \cup {[command |-> "set", key |-> Chars("key1"), mapping |-> m,
           layer |-> LAYER_MIN, mode |-> 0] : m \in AllMappings}
    \cup {[command |-> "led", key |-> <<>>, mapping |-> <<>>,
           layer |-> LAYER_MIN, mode |-> m] : m \in Modes}

InitCli ==
    /\ device = FALSE
    /\ report_id = DEFAULT_REPORT_ID
    /\ faulty \in BOOLEAN
    /\ accepts \in (IF faulty THEN {ReportIds} ELSE SUBSET ReportIds)
    /\ phase = "new"
    /\ detections = 0
    /\ closes = 0
    /\ input \in CliInputs
    /\ last = Call("init", <<>>, <<>>, FALSE)

Main ==
    /\ last.op = "init"
    /\ \E found \in BOOLEAN, opened \in BOOLEAN :
       \E io1 \in IoScriptsOf(IF found /\ opened THEN Len(ProbeOrder) ELSE 0),
          io2 \in IoScriptsOf(IF found /\ opened THEN Len(ProbeOrder) ELSE 0) :
           LET r == MainRun(input, found, opened, io1, io2)
               closed == Cardinality({i \in 1..Len(r.calls) :
                                         r.calls[i] = <<"disconnect">>})
           IN /\ device' = (r.connected /\ closed = 0)
              /\ report_id' = r.report_id
              /\ phase' = IF r.connected
                          THEN (IF closed = 0 THEN "connected"
                                ELSE "disconnected")
                          ELSE IF found THEN "connect_failed" ELSE phase
              /\ detections' = IF r.connected THEN 1 ELSE 0
              /\ closes' = closed
              /\ last' = [op |-> "main", args |-> input, frames |-> r.frames,
                          ret |-> r.outcome, probes |-> r.probes,
                          calls |-> r.calls]
              /\ UNCHANGED <<accepts, faulty, input>>

NextCli == Main

SpecCli == InitCli /\ [][NextCli]_vars

(***************************************************************************)
(* Properties.  A frame's payload is its 8 bytes after the report id.      *)
(* 161 = 0xA1, 170 = 0xAA, 176 = 0xB0.                                     *)
(***************************************************************************)
Commands == {"set_basic_key", "set_media_key", "set_led_mode"}

Payload(f) == SubSeq(f.bytes, 2, Len(f.bytes))

Payloads(frames) == [i \in 1..Len(frames) |-> Payload(frames[i])]

AllOk(frames) == \A i \in 1..Len(frames) : frames[i].ok

\* C1: connected, report id 2 or 3, layer in 1..3: a set_basic_key call whose
\* writes all succeed writes exactly the layer-switch frame, the basic-key
\* frame with type byte (layer<<4)|1 and the flash-commit frame 0xAA 0xAA, in
\* this order, and returns success.
C1_ModernBasicKeyFrames ==
    (/\ last.op = "set_basic_key"
     /\ device
     /\ report_id \in {2, 3}
     /\ last.args[4] \in 1..3
     /\ AllOk(last.frames))
    => /\ Payloads(last.frames) =
            << <<161, last.args[4], 0, 0, 0, 0, 0, 0>>,
               <<last.args[1], last.args[4] * 16 + 1, 1, 0,
                 last.args[3], last.args[2], 0, 0>>,
               <<170, 170, 0, 0, 0, 0, 0, 0>> >>
       /\ last.ret

C1_Witness ==
    /\ last.op = "set_basic_key"
    /\ device
    /\ report_id = 2
    /\ last.args = <<12, 5, 3, 3>>
    /\ Len(last.frames) = 3
    /\ AllOk(last.frames)
    /\ last.ret

\* C2: connected, report id 0: set_basic_key never writes a layer-switch
\* frame, its basic-key frame has type byte 1 whatever the layer, and when
\* its writes all succeed it writes exactly the basic-key frame and then the
\* flash-commit frame.
C2_LegacyBasicKeyFrames ==
    (last.op = "set_basic_key" /\ device /\ report_id = 0)
    => /\ \A i \in 1..Len(last.frames) : Payload(last.frames[i])[1] # 161
       /\ Len(last.frames) >= 1
       /\ Payload(last.frames[1]) =
            <<last.args[1], 1, 1, 0, last.args[3], last.args[2], 0, 0>>
       /\ AllOk(last.frames)
            => Payloads(last.frames) =
                 << <<last.args[1], 1, 1, 0, last.args[3], last.args[2],
                      0, 0>>,
                    <<170, 170, 0, 0, 0, 0, 0, 0>> >>

C2_Witness ==
    /\ last.op = "set_basic_key"
    /\ device
    /\ report_id = 0
    /\ last.args[4] = 3
    /\ Len(last.frames) = 2
    /\ AllOk(last.frames)

\* C3: connected, either dialect: set_led_mode never writes a layer-switch
\* frame, and when its writes succeed it writes exactly the LED frame
\* [0xB0, 8, mode, 0..] and then the flash-commit frame [0xAA, 0xA1, 0..].
C3_LedFrames ==
    (last.op = "set_led_mode" /\ device)
    => /\ Len(last.frames) \in 1..2
       /\ Payload(last.frames[1]) = <<176, 8, last.args[1], 0, 0, 0, 0, 0>>
       /\ AllOk(last.frames)
            => Payloads(last.frames) =
                 << <<176, 8, last.args[1], 0, 0, 0, 0, 0>>,
                    <<170, 161, 0, 0, 0, 0, 0, 0>> >>

C3_Witness ==
    /\ last.op = "set_led_mode"
    /\ device
    /\ report_id = 0
    /\ last.args = <<1>>
    /\ Len(last.frames) = 2
    /\ AllOk(last.frames)

\* C4 (as claimed): in every command, once the write of a packet fails no
\* further packet of that command is written.
C4_AbortOnFirstFailure ==
    last.op \in Commands
    => \A i \in 1..Len(last.frames) :
           ~last.frames[i].ok => i = Len(last.frames)

\* C5 (as claimed): set_basic_key and set_media_key return success only if
\* every write of the call succeeded.
C5_SuccessOnlyIfAllWritesOk ==
    (last.op \in {"set_basic_key", "set_media_key"} /\ last.ret)
    => AllOk(last.frames)

\* C6: when the key-set or LED packet was written and the flash-commit write
\* that follows it failed, the call reports failure.
C6_FlashFailureReported ==
    last.op \in Commands
    => \A i \in 2..Len(last.frames) :
           (/\ Payload(last.frames[i])[1] = 170
            /\ ~last.frames[i].ok
            /\ last.frames[i - 1].ok)
           => /\ ~last.ret
              /\ Payload(last.frames[i - 1])[1] =
                   (IF last.op = "set_led_mode" THEN 176 ELSE last.args[1])

C6_Witness ==
    /\ last.op = "set_basic_key"
    /\ Len(last.frames) = 3
    /\ last.frames[1].ok
    /\ last.frames[2].ok
    /\ Payload(last.frames[2])[1] = last.args[1]
    /\ Payload(last.frames[3])[1] = 170
    /\ ~last.frames[3].ok
    /\ ~last.ret

\* C7: while the session has no device (never connected, connect failed, or
\* disconnected), each command fails and writes no frame.
C7_DisconnectedWritesNothing ==
    (last.op \in Commands /\ ~device)
    => (~last.ret /\ last.frames = <<>>)

C7_Witness ==
    /\ last.op = "set_media_key"
    /\ ~device
    /\ phase = "disconnected"
    /\ ~last.ret
    /\ last.frames = <<>>

\* C8: detection probes the report ids in the order 3, 0, 2, each probe the
\* report id followed by 8 zero bytes; the probe after a failed one is sent,
\* none is sent after an accepted one, and the accepted id becomes the
\* session's report id.
C8_ProbeOrder ==
    (last.op = "connect" /\ last.ret)
    => /\ Len(last.frames) \in 1..3
       /\ \A i \in 1..Len(last.frames) :
            /\ last.frames[i].bytes =
                 <<(<<3, 0, 2>>)[i], 0, 0, 0, 0, 0, 0, 0, 0>>
            /\ last.frames[i].ok
                 => (i = Len(last.frames) /\ report_id = (<<3, 0, 2>>)[i])
            /\ (~last.frames[i].ok /\ i < 3) => i < Len(last.frames)

C8_Witness ==
    /\ last.op = "connect"
    /\ last.ret
    /\ Len(last.frames) = 3
    /\ ~last.frames[1].ok
    /\ ~last.frames[2].ok
    /\ last.frames[3].ok
    /\ report_id = 2

\* C9: with a transport whose acceptance of each report id is fixed, a
\* further run of detection leaves the report id as the earlier run set it;
\* when that transport rejects id 3 and accepts id 0, detection yields report
\* id 0 and every frame the commands write afterwards carries report id 0.
C9_DetectionIdempotent ==
    /\ [][(/\ ~faulty
           /\ detections >= 1
           /\ last'.op = "connect"
           /\ last'.ret)
          => report_id' = report_id]_vars
    /\ []((~faulty /\ 3 \notin accepts /\ 0 \in accepts /\ detections >= 1)
          => /\ report_id = 0
             /\ last.op \in Commands
                  => \A i \in 1..Len(last.frames) :
                         last.frames[i].bytes[1] = 0)

C9_Witness ==
    /\ ~faulty
    /\ accepts = {0, 2}
    /\ detections = 2
    /\ report_id = 0
    /\ last.op = "set_basic_key"
    /\ Len(last.frames) = 2
    /\ \A i \in 1..2 : last.frames[i].bytes[1] = 0

\* C10: when the probes of report ids 3, 0 and 2 all fail, the report id is
\* 3, connect returns True and the session is connected; with a transport
\* that accepts no report id the failure shows at the first write of the next
\* command, which returns False.
C10_DetectionFailureNonFatal ==
    /\ (/\ last.op = "connect"
        /\ Len(last.frames) = 3
        /\ \A i \in 1..3 : ~last.frames[i].ok)
       => (report_id = 3 /\ last.ret /\ device)
    /\ (last.op \in Commands /\ device /\ ~faulty /\ accepts = {})
       => (/\ last.frames # <<>>
           /\ ~last.frames[1].ok
           /\ ~last.ret)

C10_Witness ==
    /\ last.op = "connect"
    /\ Len(last.frames) = 3
    /\ \A i \in 1..3 : ~last.frames[i].ok
    /\ report_id = 3
    /\ last.ret
    /\ device

\* C11 (as claimed): while the session is connected no call changes the
\* report id or runs detection again.
C11_DialectImmutable ==
    [][device => (report_id' = report_id /\ detections' = detections)]_vars

\* C12 (as claimed): once disconnect has closed the device of a connected
\* session, no later call brings the session back to connected.
C12_NotReusableAfterDisconnect ==
    [][closes >= 1 => ~device']_vars

\* C13: every frame handed to the transport has 9 bytes; a frame written by
\* _write_report is the session's report id followed by the first 8 values of
\* the payload, a shorter payload filled up with zeros; a probe is the probed
\* id followed by 8 zeros.
C13_NineByteFrames ==
    /\ \A i \in 1..Len(last.frames) : Len(last.frames[i].bytes) = 9
    /\ last.op # "connect"
         => \A i \in 1..Len(last.frames) :
                last.frames[i].bytes[1] = report_id
    /\ (last.op = "_write_report" /\ device)
         => /\ Len(last.frames) = 1
            /\ \A k \in 1..8 :
                 last.frames[1].bytes[k + 1] =
                   (IF k <= Len(last.args) THEN last.args[k] ELSE 0)

C13_Witness ==
    /\ last.op = "_write_report"
    /\ device
    /\ report_id = 0
    /\ Len(last.args) = 9
    /\ last.frames[1].bytes = <<0, 1, 2, 3, 4, 5, 6, 7, 8>>

\* C14 (as claimed): with report id 2 or 3 and a layer below 1, the key-set
\* frame of set_basic_key and set_media_key has the type byte
\* (1 << 4) | key type.
C14_LayerClampedInTypeByte ==
    (/\ last.op \in {"set_basic_key", "set_media_key"}
     /\ device
     /\ report_id # 0
     /\ last.args[Len(last.args)] < 1
     /\ Len(last.frames) >= 2)
    => Payload(last.frames[2])[2] =
         16 + (IF last.op = "set_basic_key" THEN 1 ELSE 2)

\* C15: when its writes all succeed, set_media_key with report id 2 or 3 and
\* a layer in 1..3 writes the layer-switch frame, the media frame
\* [slot, (layer<<4)|2, code, 0..] and the flash-commit frame 0xAA 0xAA; with
\* report id 0 it writes the media frame [slot, 2, code, 0..] and the
\* flash-commit frame only.
C15_MediaKeyFrames ==
    (last.op = "set_media_key" /\ device /\ AllOk(last.frames))
    => IF report_id = 0
       THEN Payloads(last.frames) =
              << <<last.args[1], 2, last.args[2], 0, 0, 0, 0, 0>>,
                 <<170, 170, 0, 0, 0, 0, 0, 0>> >>
       ELSE last.args[3] \in 1..3
            => Payloads(last.frames) =
                 << <<161, last.args[3], 0, 0, 0, 0, 0, 0>>,
                    <<last.args[1], last.args[3] * 16 + 2, last.args[2],
                      0, 0, 0, 0, 0>>,
                    <<170, 170, 0, 0, 0, 0, 0, 0>> >>

C15_Witness ==
    /\ last.op = "set_media_key"
    /\ device
    /\ report_id = 3
    /\ last.args = <<18, 233, 2>>
    /\ Len(last.frames) = 3
    /\ AllOk(last.frames)

\* C20: in every command a flash-commit frame directly follows a key-set or
\* LED frame whose write succeeded, every key-set or LED frame whose write
\* succeeded is directly followed by a flash-commit frame, and the
\* flash-commit's second byte is 0xA1 after an LED frame and 0xAA after a
\* key-set frame; after a failed key-set or LED write nothing is written.
IsFlashFrame(f) == Payload(f)[1] = 170

IsLayerSwitchFrame(f) == Payload(f)[1] = 161

IsPayloadFrame(f) == ~IsFlashFrame(f) /\ ~IsLayerSwitchFrame(f)

C20_FlashFollowsPayload ==
    last.op \in Commands
    => \A i \in 1..Len(last.frames) :
         /\ IsFlashFrame(last.frames[i])
              => /\ i >= 2
                 /\ IsPayloadFrame(last.frames[i - 1])
                 /\ last.frames[i - 1].ok
                 /\ Payload(last.frames[i])[2] =
                      (IF Payload(last.frames[i - 1])[1] = 176
                       THEN 161 ELSE 170)
         /\ IsPayloadFrame(last.frames[i])
              => IF last.frames[i].ok
                 THEN /\ i < Len(last.frames)
                      /\ IsFlashFrame(last.frames[i + 1])
                 ELSE i = Len(last.frames)

C20_Witness ==
    /\ last.op = "set_led_mode"
    /\ Len(last.frames) = 2
    /\ IsPayloadFrame(last.frames[1])
    /\ last.frames[1].ok
    /\ last.frames[2].bytes = <<report_id, 170, 161, 0, 0, 0, 0, 0, 0>>

C20_WitnessNoFlash ==
    /\ last.op = "set_basic_key"
    /\ Len(last.frames) = 2
    /\ IsLayerSwitchFrame(last.frames[1])
    /\ IsPayloadFrame(last.frames[2])
    /\ ~last.frames[2].ok

(***************************************************************************)
(* Properties of parse_key_combo, stated over the tokens a combo was       *)
(* written from.                                                           *)
(***************************************************************************)
TokenNames == [i \in 1..Len(input.toks) |-> Str(input.toks[i])]

FlagOf(name) ==
    IF name \in {"ctrl", "control"} THEN 1
    ELSE IF name = "shift" THEN 2
    ELSE IF name = "alt" THEN 4
    ELSE IF name \in {"win", "super", "meta", "gui"} THEN 8
    ELSE 0

\* the bitwise OR of the flags of the modifier tokens
OrOfFlags ==
    LET F == {FlagOf(TokenNames[i]) : i \in 1..Len(TokenNames)}
    IN (IF 1 \in F THEN 1 ELSE 0) + (IF 2 \in F THEN 2 ELSE 0)
       + (IF 4 \in F THEN 4 ELSE 0) + (IF 8 \in F THEN 8 ELSE 0)

KeyTokens == {i \in 1..Len(TokenNames) : TokenNames[i] \in DOMAIN KEYCODES}

RecognizedToken(t) == FlagOf(Str(t)) # 0 \/ Str(t) \in DOMAIN KEYCODES

C17_UnrecognizedIgnored ==
    last.op = "parse_key_combo"
    => /\ (\A i \in 1..Len(input.toks) : ~RecognizedToken(input.toks[i]))
            => last.ret = <<0, 0>>
       /\ last.ret =
            ParseKeyCombo(Render(SelectSeq(input.toks, RecognizedToken),
                                 input.style))


(***************************************************************************)
(* Properties of main(), checked under SpecCli.                            *)
(***************************************************************************)
\* the names of the functions main() called, in order
CalledNames == {last.calls[i][1] : i \in 1..Len(last.calls)}

\* a set command that got past connect and the physical key lookup
SetCommandRan ==
    /\ last.op = "main"
    /\ input.command = "set"
    /\ last.ret \notin {"connect_error", "unknown_slot"}

\* C18: in the set command a mapping that is (after lowercasing) a member of
\* the media table is passed to set_media_key with its media code, and
\* neither parse_key_combo nor set_basic_key is called; any other mapping
\* is passed to parse_key_combo and set_media_key is not called.
C18_MediaTableBypassesParser ==
    SetCommandRan =>
        LET mapping == Str(Lower(input.mapping))
            slot == PHYSICAL_KEYS[Str(Lower(input.key))]
        IN IF mapping \in DOMAIN MEDIA_KEYCODES
           THEN /\ \E i \in 1..Len(last.calls) :
                       last.calls[i] = <<"set_media_key", slot,
                                         MEDIA_KEYCODES[mapping],
                                         input.layer>>
                /\ "parse_key_combo" \notin CalledNames
                /\ "set_basic_key" \notin CalledNames
           ELSE /\ \E i \in 1..Len(last.calls) :
                       last.calls[i] = <<"parse_key_combo",
                                         Lower(input.mapping)>>
                /\ "set_media_key" \notin CalledNames

\* "PAUSE" is in both tables: it was set as the media key 205
C18_Witness ==
    /\ SetCommandRan
    /\ input.mapping = Chars("PAUSE")
    /\ "pause" \in DOMAIN KEYCODES
    /\ <<"set_media_key", 1, 205, input.layer>>
           \in {last.calls[i] : i \in 1..Len(last.calls)}
    /\ last.ret = "set"

\* a mapping outside the media table went through the parser to
\* set_basic_key
C18_WitnessCombo ==
    /\ SetCommandRan
    /\ input.mapping = Chars("ctrl+pause")
    /\ "set_basic_key" \in CalledNames
    /\ last.ret = "set"

\* the low nibble of a payload frame's type byte
FrameKeyType(f) == BitAnd(Payload(f)[2], NIBBLE)

\* C19: every key-set or LED frame written by the set and led commands has
\* a slot byte in 1..176; a basic key frame has its modifier byte and its
\* keycode byte in 0..255, a media key frame has its media-code byte in
\* 0..255.
C19_BytesInRange ==
    last.op = "main" =>
        \A i \in 1..Len(last.frames) :
            LET f == last.frames[i]
            IN IsPayloadFrame(f) =>
                   /\ Payload(f)[1] \in 1..LED_SLOT
                   /\ FrameKeyType(f) \in {KT_BASIC, KT_MEDIA, KT_LED}
                   /\ FrameKeyType(f) = KT_BASIC =>
                          /\ Payload(f)[5] \in 0..255
                          /\ Payload(f)[6] \in 0..255
                   /\ FrameKeyType(f) = KT_MEDIA => Payload(f)[3] \in 0..255
                   /\ FrameKeyType(f) = KT_LED => Payload(f)[1] = LED_SLOT

\* ctrl+shift+a was written to slot 12 with modifiers 3 and keycode 4
C19_Witness ==
    /\ last.op = "main"
    /\ input.mapping = Chars("ctrl+shift+a")
    /\ input.key = Chars("KEY12")
    /\ \E i \in 1..Len(last.frames) :
           /\ IsPayloadFrame(last.frames[i])
           /\ last.frames[i].ok
           /\ Payload(last.frames[i])[1] = 12
           /\ Payload(last.frames[i])[5] = 3
           /\ Payload(last.frames[i])[6] = 4

\* the led command wrote a frame for slot 176
C19_WitnessLed ==
    /\ last.op = "main"
    /\ input.command = "led"
    /\ \E i \in 1..Len(last.frames) :
           /\ last.frames[i].ok
           /\ Payload(last.frames[i])[1] = LED_SLOT
           /\ FrameKeyType(last.frames[i]) = KT_LED


\* C21: in the set command, when the physical key name is not in
\* PHYSICAL_KEYS the run reports an unknown slot, and when the mapping is not
\* a media name and parse_key_combo returns keycode 0 it reports an unknown
\* key; in both cases no frame is written after the detection probes and no
\* set function is called.
C21_UnknownSlotOrKeyWritesNothing ==
    (last.op = "main" /\ input.command = "set"
       /\ last.ret # "connect_error") =>
        LET key_name == Str(Lower(input.key))
            mapping == Lower(input.mapping)
            silent == /\ last.frames = <<>>
                      /\ CalledNames \cap Commands = {}
        IN /\ key_name \notin DOMAIN PHYSICAL_KEYS
              => (last.ret = "unknown_slot" /\ silent)
           /\ (/\ key_name \in DOMAIN PHYSICAL_KEYS
               /\ Str(mapping) \notin DOMAIN MEDIA_KEYCODES
               /\ ParseKeyCombo(mapping)[2] = 0)
              => (last.ret = "unknown_key" /\ silent)
           /\ last.ret \in {"unknown_slot", "unknown_key"} => silent

\* the mapping "xyz" for key1 was reported as an unknown key on a device
\* that answered the probes
C21_Witness ==
    /\ last.op = "main"
    /\ input.key = Chars("key1")
    /\ input.mapping = Chars("xyz")
    /\ last.ret = "unknown_key"
    /\ Len(last.probes) >= 1
    /\ last.frames = <<>>

\* the name key13 was reported as an unknown slot
C21_WitnessSlot ==
    /\ last.op = "main"
    /\ input.key = Chars("key13")
    /\ last.ret = "unknown_slot"
    /\ last.frames = <<>>

\* the position of the last key token of the combo
LastKeyToken == CHOOSE i \in KeyTokens : \A j \in KeyTokens : j <= i

\* C22 (as claimed): a combo with two or more tokens of KEYCODES gives the
\* keycode of the last of them, and the modifiers are the OR of the flags of
\* all its modifier tokens.
C22_LastKeyTokenWins ==
    (last.op = "parse_key_combo" /\ Cardinality(KeyTokens) >= 2)
    => /\ last.ret[2] = KEYCODES[TokenNames[LastKeyToken]]
       /\ last.ret[1] = OrOfFlags

\* C23: the report id of the session is 0, 2 or 3 in every state.
C23_ReportIdInRange == report_id \in {0, 2, 3}

\* a legacy device was detected, the session was closed and a command was
\* called on it: the report id is still 0
C23_Witness ==
    /\ report_id = 0
    /\ detections >= 1
    /\ closes >= 1
    /\ last.op \in Commands

\* C24 (as claimed): after connect() its result equals is_connected().
C24_ConnectResultIsState == last.op = "connect" => (last.ret <=> device)

\* C25: a run of set or led that connected ends with the device closed, by
\* exactly one call of disconnect, the last call of the run, whatever the
\* outcome.
C25_ClosedOnceOnEveryPath ==
    (last.op = "main" /\ last.ret # "connect_error")
    => /\ ~device
       /\ closes = 1
       /\ last.calls[Len(last.calls)] = <<"disconnect">>
       /\ Cardinality({i \in 1..Len(last.calls) :
                          last.calls[i] = <<"disconnect">>}) = 1
       /\ last.ret \in {"set", "failed", "unknown_slot", "unknown_key"}

\* a run whose mapping was unknown closed the device
C25_Witness ==
    /\ last.op = "main"
    /\ last.ret = "unknown_key"
    /\ closes = 1
    /\ ~device

\* a run with a failed write closed the device
C25_WitnessFailed ==
    /\ last.op = "main"
    /\ last.ret = "failed"
    /\ \E i \in 1..Len(last.frames) : ~last.frames[i].ok
    /\ closes = 1
    /\ ~device

====
